---- MODULE Spec2Model ----
(***************************************************************************)
(* A model of the Apple Music -> Spotify playlist converter:               *)
(*   src/src/spotifyClient.js        findBestMatch (candidate scoring),    *)
(*                                   searchTrack, searchAndMatchTracks     *)
(*   src/index.js                    convertPlaylist (a conversion run)    *)
(*   src/src/applePlaylistParser.js  the tab-delimited export parser       *)
(*   src/src/appleXmlParser.js       the property-list (XML) parser        *)
(*                                                                         *)
(* A JavaScript string is a sequence of characters, each character a       *)
(* one-element TLA+ string.  In the parsers' inputs a word that holds no   *)
(* separator ("Name", "Tracks") is written as one element, since the       *)
(* parsers only split, trim, compare and test such words for emptiness.    *)
(* A JavaScript number is a record [nan, val]: NaN is a value of its own.  *)
(***************************************************************************)
EXTENDS Integers, Sequences, FiniteSets, TLC

VARIABLES
    op,         \* the operation executed last ("init" before any)
    fileExt,    \* index.js: the extension of options.file, which picks the parser
    laterFiles, \* the files a caller hands to parseFile of the same parser later on
    tContent,   \* ApplePlaylistParser: the text of the file parseFile reads
    tHeaders,   \* ApplePlaylistParser: this.headers
    tTracks,    \* ApplePlaylistParser: this.tracks
    tRet,       \* ApplePlaylistParser: how the last call ended, and its value
    dDict,      \* AppleXmlParser.parseDict: the dictData argument
    dResult,    \* AppleXmlParser.parseDict: the record returned
    xDoc,       \* AppleXmlParser: the document in the file parseFile reads
    xTracks,    \* AppleXmlParser: this.tracks
    xPlaylists, \* AppleXmlParser: this.playlists
    xArg,       \* AppleXmlParser: the playlistName argument of the last lookup
    xRet,       \* AppleXmlParser: how the last call ended, and its value
    mTrack,     \* findBestMatch: the originalTrack argument
    mCands,     \* findBestMatch: the searchResults argument
    mScores,    \* findBestMatch: the scores computed by the loop, in order
    mResult,    \* findBestMatch: how the call ended
    appleTracks,\* convertPlaylist: the canonical tracks handed to searchAndMatchTracks
    loopIndex,  \* searchAndMatchTracks: the loop index i, the number of tracks processed
    results,    \* searchAndMatchTracks: the results object {found, notFound, total}
    search,     \* searchTrack: the requests, the replies and the value of the last call
    run         \* convertPlaylist: how far the run is, its options and its report

matchVars == <<mTrack, mCands, mScores, mResult>>

tabVars == <<tContent, tHeaders, tTracks, tRet>>

dictVars == <<dDict, dResult>>

xmlVars == <<xDoc, xTracks, xPlaylists, xArg, xRet>>

runVars == <<appleTracks, loopIndex, results, search, run>>

vars == <<op, fileExt, laterFiles, matchVars, tabVars, dictVars, xmlVars, runVars>>

(***************************************************************************)
(* Bounds of the model                                                     *)
(***************************************************************************)
\* the longest searchResults list handed to findBestMatch
MaxCands == 3

\* the most lines of a tab-delimited file
MaxLines == 3

\* the most keys a dict handed to parseDict declares
MaxKeys == 3

\* the most playlists of a library document
MaxPlaylists == 2

\* the most files one parser is handed after its first
MaxLater == 2

(***************************************************************************)
(* JavaScript values                                                       *)
(***************************************************************************)
\* the value undefined where a string is expected (a missing property)
Undefined == <<"undefined">>

Num(n) == [nan |-> FALSE, val |-> n]

NaN == [nan |-> TRUE, val |-> 0]

\* truthiness of a number: 0 and NaN are falsy
TruthyNum(x) == ~x.nan /\ x.val # 0

\* truthiness of a string: only "" is falsy
TruthyStr(s) == s # <<>>

Abs(n) == IF n < 0 THEN -n ELSE n

IsSpace(c) == c \in {" ", "\t", "\n", "\r"}

IsDigit(c) == c \in {"0", "1", "2", "3", "4", "5", "6", "7", "8", "9"}

IsWordChar(c) == c \in {"a", "b", "c", "m", "x", "y", "A", "B", "_"} \/ IsDigit(c)

ToLowerChar(c) == CASE c = "A" -> "a" [] c = "B" -> "b" [] OTHER -> c

ToLowerCase(s) == [i \in 1..Len(s) |-> ToLowerChar(s[i])]

RECURSIVE TrimStart(_)
TrimStart(s) == IF s # <<>> /\ IsSpace(Head(s)) THEN TrimStart(Tail(s)) ELSE s

RECURSIVE TrimEnd(_)
TrimEnd(s) ==
    IF s # <<>> /\ IsSpace(s[Len(s)]) THEN TrimEnd(SubSeq(s, 1, Len(s) - 1)) ELSE s

Trim(s) == TrimEnd(TrimStart(s))

\* a.includes(b): b occurs in a as a contiguous run (the empty string always does)
Includes(a, b) ==
    \E k \in 0..(Len(a) - Len(b)) : SubSeq(a, k + 1, k + Len(b)) = b

(***************************************************************************)
(* SpotifyClient.findBestMatch                                             *)
(***************************************************************************)
KeepsWordOrSpace(c) == IsWordChar(c) \/ IsSpace(c)

normalizeString(str) == Trim(SelectSeq(ToLowerCase(str), KeepsWordOrSpace))

\* the reads that raise a TypeError while a candidate is scored: name.toLowerCase()
\* of a missing name, artists[0].name of an empty artist list, and, only when the
\* original track has an album, album.name of a missing album
ScoreThrows(track, originalTrack) ==
    \/ track.name = Undefined
    \/ track.artists = <<>>
    \/ track.artists[1] = Undefined
    \/ TruthyStr(originalTrack.album) /\ track.album = Undefined

NameScore(trackNameNorm, originalTrackNorm) ==
    IF trackNameNorm = originalTrackNorm THEN 10
    ELSE IF Includes(trackNameNorm, originalTrackNorm)
            \/ Includes(originalTrackNorm, trackNameNorm) THEN 5
    ELSE 0

ArtistScore(artistNameNorm, originalArtistNorm) ==
    IF artistNameNorm = originalArtistNorm THEN 10
    ELSE IF Includes(artistNameNorm, originalArtistNorm)
            \/ Includes(originalArtistNorm, artistNameNorm) THEN 5
    ELSE 0

AlbumScore(track, originalTrack) ==
    IF TruthyStr(originalTrack.album)
    THEN LET originalAlbumNorm == normalizeString(originalTrack.album)
             albumNameNorm == normalizeString(track.album)
         IN  IF albumNameNorm = originalAlbumNorm THEN 3
             ELSE IF Includes(albumNameNorm, originalAlbumNorm)
                     \/ Includes(originalAlbumNorm, albumNameNorm) THEN 1
             ELSE 0
    ELSE 0

\* durationDiff = |duration - duration_ms / 1000| is compared in milliseconds,
\* the division being exact in the code
DurationScoreFloorDiv(track, originalTrack) ==
    IF TruthyNum(originalTrack.duration) /\ TruthyNum(track.duration_ms)
    THEN LET durationDiff ==
                 Abs(originalTrack.duration.val - (track.duration_ms.val \div 1000))
         IN  IF durationDiff <= 2 THEN 2
             ELSE IF durationDiff <= 5 THEN 1
             ELSE 0
    ELSE 0

DurationScore(track, originalTrack) ==
    IF TruthyNum(originalTrack.duration) /\ TruthyNum(track.duration_ms)
    THEN LET durationDiffMs ==
                 Abs(originalTrack.duration.val * 1000 - track.duration_ms.val)
         IN  IF durationDiffMs <= 2000 THEN 2
             ELSE IF durationDiffMs <= 5000 THEN 1
             ELSE 0
    ELSE 0

ScoreOf(track, originalTrack) ==
    NameScore(normalizeString(track.name), normalizeString(originalTrack.name))
    + ArtistScore(normalizeString(track.artists[1]),
                  normalizeString(originalTrack.artist))
    + AlbumScore(track, originalTrack)
    + DurationScore(track, originalTrack)

ReplacesOnTie(score, bestScore) == score >= bestScore

\* line 87: the candidate replaces the current best
Replaces(score, bestScore) == score > bestScore

\* the for loop of lines 61-91 from candidate i on; bestMatch is the position of
\* the current best in searchResults
RECURSIVE BestLoop(_, _, _, _, _, _)
BestLoop(searchResults, originalTrack, i, bestMatch, bestScore, scores) ==
    IF i > Len(searchResults)
    THEN [kind |-> "track", idx |-> bestMatch, scores |-> scores]
    ELSE IF ScoreThrows(searchResults[i], originalTrack)
    THEN [kind |-> "throw", idx |-> 0, scores |-> scores]
    ELSE LET score == ScoreOf(searchResults[i], originalTrack)
         IN  IF Replaces(score, bestScore)
             THEN BestLoop(searchResults, originalTrack, i + 1, i, score,
                           Append(scores, score))
             ELSE BestLoop(searchResults, originalTrack, i + 1, bestMatch,
                           bestScore, Append(scores, score))

NoSingleShortcut(searchResults) == FALSE

\* line 51: a single result is returned as it is
SingleResult(searchResults) == Len(searchResults) = 1

findBestMatch(searchResults, originalTrack) ==
    IF Len(searchResults) = 0
    THEN [kind |-> "null", idx |-> 0, scores |-> <<>>]
    ELSE IF SingleResult(searchResults)
    THEN [kind |-> "track", idx |-> 1, scores |-> <<>>]
    ELSE BestLoop(searchResults, originalTrack, 1, 1, 0, <<>>)

(***************************************************************************)
(* The inputs of findBestMatch                                             *)
(***************************************************************************)
Cand(name, artists, album, ms) ==
    [name |-> name, artists |-> artists, album |-> album, duration_ms |-> Num(ms)]

\* original tracks as getTracksForSpotify produces them: name and artist are
\* non-empty, the album may be empty, the duration may be 0 or NaN
MatchTracks ==
    { [name |-> <<"a", "b">>, artist |-> <<"x", "y">>, album |-> al, duration |-> d] :
        al \in {<<>>, <<"m">>, <<"!">>}, d \in {Num(0), Num(10), NaN} }

\* search results: one well-matching candidate, and candidates that differ from
\* it in one field, among them the malformed ones
MatchCands ==
    { Cand(<<"a", "b">>, << <<"x", "y">> >>, <<"m">>, 10000),
      Cand(<<"A", "b", "!">>, << <<"x", "y">> >>, <<"m">>, 12000),
      Cand(<<"a", "b", "c">>, << <<"x", "y">> >>, <<"m">>, 12001),
      Cand(<<"c">>, << <<"x", "y">> >>, <<"m">>, 15000),
      Cand(<<"!">>, << <<"x", "y">> >>, <<"m">>, 15001),
      Cand(<<"a", "b">>, << <<"x">>, <<"x", "y">> >>, <<"m", "c">>, 0),
      Cand(<<"a", "b">>, << <<"c">> >>, <<"c">>, 8000),
      Cand(<<"c">>, << <<"c">> >>, <<>>, 0),
      Cand(<<"c">>, << <<"c">> >>, <<"c">>, 20000),
      Cand(<<"a", "b">>, <<>>, <<"m">>, 10000),
      Cand(<<"a", "b">>, << <<"x", "y">> >>, Undefined, 10000),
      Cand(Undefined, << <<"x", "y">> >>, <<"m">>, 10000) }

RECURSIVE SeqsUpTo(_, _)
SeqsUpTo(S, n) ==
    IF n = 0 THEN {<<>>}
    ELSE LET shorter == SeqsUpTo(S, n - 1)
         IN  shorter \cup {Append(s, x) : s \in shorter, x \in S}

\* the state of a conversion run while the program makes none
NoRun ==
    /\ appleTracks = <<>>
    /\ loopIndex = 0
    /\ results = [found |-> <<>>, notFound |-> <<>>, total |-> 0]
    /\ search = [token |-> TRUE, requests |-> <<>>, replies |-> <<>>, results |-> <<>>]
    /\ run = [state |-> "none", error |-> "", playlist |-> [t |-> "undefined"],
              written |-> FALSE, report |-> <<>>]

\* the matcher's state while the program runs a parser
NoMatch ==
    /\ mTrack = [name |-> <<>>, artist |-> <<>>, album |-> <<>>, duration |-> Num(0)]
    /\ mCands = <<>>
    /\ mScores = <<>>
    /\ mResult = [kind |-> "none", idx |-> 0]

\* the property-list parser's state while the program does not run it
NoXml ==
    /\ dDict = [tag |-> "dict", text |-> <<>>, kids |-> <<>>]
    /\ dResult = <<>>
    /\ xDoc = [tag |-> "plist", text |-> <<>>, kids |-> <<>>]
    /\ xTracks = <<>>
    /\ xPlaylists = <<>>
    /\ xArg = [t |-> "undefined"]
    /\ xRet = [kind |-> "none"]

\* the parsers' state while the program runs no parser
NoParser ==
    /\ tContent = <<>>
    /\ tHeaders = <<>>
    /\ tTracks = <<>>
    /\ tRet = [kind |-> "none"]
    /\ NoXml

InitMatch ==
    /\ op = "init"
    /\ laterFiles = <<>>
    /\ NoRun
    /\ fileExt = ""
    /\ NoParser
    /\ mTrack \in MatchTracks
    /\ mCands \in SeqsUpTo(MatchCands, MaxCands)
    /\ mScores = <<>>
    /\ mResult = [kind |-> "none", idx |-> 0]

CallFindBestMatch ==
    /\ fileExt = ""
    /\ op = "init"
    /\ LET r == findBestMatch(mCands, mTrack)
       IN  /\ mResult' = [kind |-> r.kind, idx |-> r.idx]
           /\ mScores' = r.scores
    /\ op' = "findBestMatch"
    /\ UNCHANGED <<runVars, fileExt, laterFiles, mTrack, mCands, tabVars, dictVars, xmlVars>>

NextMatch == CallFindBestMatch

SpecMatch == InitMatch /\ [][NextMatch]_vars

(***************************************************************************)
(* JavaScript helpers of the parsers                                       *)
(***************************************************************************)
\* s.split(sep) for a one-character separator: "" splits into [""]
RECURSIVE Split(_, _)
Split(s, sep) ==
    IF \A k \in 1..Len(s) : s[k] # sep THEN <<s>>
    ELSE LET k == CHOOSE i \in 1..Len(s) : s[i] = sep /\ \A j \in 1..(i - 1) : s[j] # sep
         IN  <<SubSeq(s, 1, k - 1)>> \o Split(SubSeq(s, k + 1, Len(s)), sep)

DigitVal(c) ==
    CASE c = "0" -> 0 [] c = "1" -> 1 [] c = "2" -> 2 [] c = "3" -> 3 [] c = "4" -> 4
      [] c = "5" -> 5 [] c = "6" -> 6 [] c = "7" -> 7 [] c = "8" -> 8 [] c = "9" -> 9

RECURSIVE DigitsValue(_, _)
DigitsValue(s, acc) ==
    IF s # <<>> /\ IsDigit(Head(s)) THEN DigitsValue(Tail(s), acc * 10 + DigitVal(Head(s)))
    ELSE acc

\* parseInt(s): leading white space and a sign are skipped and the longest run of
\* decimal digits is read; NaN when there is none
parseInt(s) ==
    LET t == TrimStart(s)
        neg == t # <<>> /\ Head(t) = "-"
        u == IF t # <<>> /\ Head(t) \in {"-", "+"} THEN Tail(t) ELSE t
    IN  IF u = <<>> \/ ~IsDigit(Head(u)) THEN NaN
        ELSE Num(IF neg THEN -DigitsValue(u, 0) ELSE DigitsValue(u, 0))

NumAdd(a, b) == IF a.nan \/ b.nan THEN NaN ELSE Num(a.val + b.val)

NumMul(a, b) == IF a.nan \/ b.nan THEN NaN ELSE Num(a.val * b.val)

(***************************************************************************)
(* ApplePlaylistParser (the tab-delimited export)                          *)
(***************************************************************************)
IsBlankLine(line) == Trim(line) = <<>>

NonBlank(line) == ~IsBlankLine(line)

FirstWins(track, header, value) ==
    IF header \in DOMAIN track THEN track ELSE (header :> value) @@ track

\* track[header] = value: a later assignment to the same property replaces the value
SetField(track, header, value) ==
    (header :> value) @@ track

ValueOrUndefined(values, index) ==
    IF index <= Len(values) THEN values[index] ELSE Undefined

\* values[index] || '': a missing field reads as undefined and becomes ''
ValueOrEmpty(values, index) ==
    IF index <= Len(values) /\ TruthyStr(values[index]) THEN values[index] ELSE <<>>

\* this.headers.forEach((header, index) => ...) from column index on (lines 25-27)
RECURSIVE ZipRow(_, _, _, _)
ZipRow(headers, values, index, track) ==
    IF index > Len(headers) THEN track
    ELSE ZipRow(headers, values, index + 1,
                SetField(track, headers[index], ValueOrEmpty(values, index)))

\* the empty object {}
EmptyObject == [h \in {} |-> <<>>]

\* lines 12-32 of parseFile, given the text of the file
tabParse(content) ==
    LET lines == SelectSeq(Split(content, "\n"), NonBlank)
    IN  IF Len(lines) = 0
        THEN [kind |-> "error", headers |-> <<>>, tracks |-> <<>>]
        ELSE LET headers == Split(lines[1], "\t")
             IN  [kind |-> "ok",
                  headers |-> headers,
                  tracks |-> [i \in 1..(Len(lines) - 1) |->
                                 ZipRow(headers, Split(lines[i + 1], "\t"), 1, EmptyObject)]]

\* track.Name || '' and the like: a property the record lacks reads as undefined
Prop(track, key) == IF key \in DOMAIN track THEN track[key] ELSE <<>>

parseTime(timeString) ==
    IF ~TruthyStr(timeString) THEN Num(0)
    ELSE LET parts == Split(timeString, ":")
         IN  IF Len(parts) = 2
             THEN NumAdd(NumMul(parseInt(parts[1]), Num(60)), parseInt(parts[2]))
             ELSE IF Len(parts) = 3
             THEN NumAdd(NumAdd(NumMul(parseInt(parts[1]), Num(3600)),
                                NumMul(parseInt(parts[2]), Num(60))),
                         parseInt(parts[3]))
             ELSE IF TruthyNum(parseInt(timeString)) THEN parseInt(timeString)
             ELSE Num(0)

tabCanonical(track) ==
    [name |-> Prop(track, <<"Name">>),
     artist |-> Prop(track, <<"Artist">>),
     album |-> Prop(track, <<"Album">>),
     year |-> Prop(track, <<"Year">>),
     duration |-> parseTime(Prop(track, <<"Time">>)),
     originalTrack |-> track]

KeepsEither(track) == TruthyStr(track.name) \/ TruthyStr(track.artist)

\* the filter of getTracksForSpotify: track.name && track.artist
KeepsTrack(track) == TruthyStr(track.name) /\ TruthyStr(track.artist)

tabGetTracksForSpotify(tracks) ==
    SelectSeq([i \in 1..Len(tracks) |-> tabCanonical(tracks[i])], KeepsTrack)

\* a file is a sequence of lines joined by line feeds
RECURSIVE JoinLines(_)
JoinLines(lines) ==
    IF lines = <<>> THEN <<>>
    ELSE IF Len(lines) = 1 THEN lines[1]
    ELSE lines[1] \o <<"\n">> \o JoinLines(Tail(lines))

\* the lines the files are made of: header rows (one with a repeated name), data
\* rows shorter and longer than the header row, blank rows, Time fields
TabLines ==
    { <<"Name", "\t", "Artist">>,
      <<"Name", "\t", "Name">>,
      <<"Artist", "\t", "Time", "\t", "Name">>,
      <<"x", "\t", "y">>,
      <<"x">>,
      <<"\t", "y">>,
      <<"x", "\t", "y", "\t", "m">>,
      <<"y", "\t", "3", ":", "4", "5", "\t", "x">>,
      <<"y", "\t", "1", ":", "0", "2", ":", "0", "3">>,
      <<"y", "\t", ":", "\t", "x", "\r">>,
      <<" ", "\t", " ">>,
      <<>> }

TabContents == {JoinLines(lines) : lines \in SeqsUpTo(TabLines, MaxLines)}

InitTab ==
    /\ op = "init"
    /\ laterFiles = <<>>
    /\ NoRun
    /\ fileExt = ".txt"
    /\ tContent \in TabContents
    /\ tHeaders = <<>>
    /\ tTracks = <<>>
    /\ tRet = [kind |-> "none"]
    /\ NoXml
    /\ NoMatch

\* ApplePlaylistParser.parseFile: called once per run by index.js (line 112), and
\* again by a caller that hands the same parser a later file
TabParseFile ==
    /\ fileExt = ".txt"
    /\ op = "init" \/ laterFiles # <<>>
    /\ LET content == IF op = "init" THEN tContent ELSE Head(laterFiles)
           r == tabParse(content)
       IN  /\ tContent' = content
           /\ laterFiles' = IF op = "init" THEN laterFiles ELSE Tail(laterFiles)
           /\ IF r.kind = "error"
              THEN /\ tRet' = [kind |-> "error"]
                   /\ UNCHANGED <<tHeaders, tTracks>>
              ELSE /\ tHeaders' = r.headers
                   /\ tTracks' = r.tracks
                   /\ tRet' = [kind |-> "ok", val |-> r.tracks]
    /\ op' = "parseFile"
    /\ UNCHANGED <<runVars, fileExt, matchVars, dictVars, xmlVars>>

\* ApplePlaylistParser.getTracksForSpotify
TabGetTracksForSpotify ==
    /\ fileExt = ".txt"
    /\ tRet' = [kind |-> "ok", val |-> tabGetTracksForSpotify(tTracks)]
    /\ op' = "getTracksForSpotify"
    /\ UNCHANGED <<runVars, fileExt, laterFiles, tContent, tHeaders, tTracks, matchVars, dictVars, xmlVars>>

\* ApplePlaylistParser.getPlaylistInfo
TabGetPlaylistInfo ==
    /\ fileExt = ".txt"
    /\ tRet' = [kind |-> "ok",
                val |-> [totalTracks |-> Len(tTracks),
                         validTracks |-> Len(tabGetTracksForSpotify(tTracks)),
                         headers |-> tHeaders]]
    /\ op' = "getPlaylistInfo"
    /\ UNCHANGED <<runVars, fileExt, laterFiles, tContent, tHeaders, tTracks, matchVars, dictVars, xmlVars>>

NextTab == TabParseFile \/ TabGetTracksForSpotify \/ TabGetPlaylistInfo

SpecTab == InitTab /\ [][NextTab]_vars

(***************************************************************************)
(* The property-list document and its xml2js form                          *)
(*                                                                         *)
(* A document is a tree of elements [tag, text, kids].  xml2js, run with   *)
(* explicitArray: false, turns an element without children into its text   *)
(* (the empty string for an empty element such as <true/>, <array/> or     *)
(* <string></string>) and an element with children into an object holding, *)
(* for each child tag, the converted children with that tag in document    *)
(* order: a property the object lacks, a single value, or an array of two   *)
(* or more.  Below such a property is the sequence of its values, of       *)
(* length 0, 1, or more.                                                   *)
(***************************************************************************)
El(tag, text, kids) == [tag |-> tag, text |-> text, kids |-> kids]

KeyEl(name) == El("key", <<name>>, <<>>)

StringEl(text) == El("string", text, <<>>)

IntegerEl(text) == El("integer", text, <<>>)

DateEl(text) == El("date", text, <<>>)

TrueEl == El("true", <<>>, <<>>)

FalseEl == El("false", <<>>, <<>>)

\* a value of a type parseDict reads no bucket of (<real>, <data>)
RealEl(text) == El("real", text, <<>>)

ArrayEl(kids) == El("array", <<>>, kids)

DictEl(kids) == El("dict", <<>>, kids)

HasTag(el, tag) == el.tag = tag

RECURSIVE Xml2js(_)
Xml2js(el) ==
    IF el.kids = <<>> THEN [kind |-> "text", text |-> el.text]
    ELSE LET Of(tag) ==
                 LET Tagged(kid) == HasTag(kid, tag)
                     kids == SelectSeq(el.kids, Tagged)
                 IN  [i \in 1..Len(kids) |-> Xml2js(kids[i])]
         IN  [kind |-> "object",
              key |-> Of("key"), string |-> Of("string"), integer |-> Of("integer"),
              date |-> Of("date"), true |-> Of("true"), false |-> Of("false"),
              array |-> Of("array"), dict |-> Of("dict")]

\* node.tag as JavaScript reads it: a string has no such property
JsProp(node, tag) == IF node.kind = "object" THEN node[tag] ELSE <<>>

\* truthiness of a converted element: only the empty string is falsy
NodeTruthy(node) == node.kind = "object" \/ node.text # <<>>

\* truthiness of a property: undefined is falsy, an array is truthy, a single
\* value is truthy unless it is the empty string
PropTruthy(prop) == Len(prop) >= 2 \/ (Len(prop) = 1 /\ NodeTruthy(prop[1]))

\* dictData.x ? (Array.isArray(dictData.x) ? dictData.x : [dictData.x]) : []
ListOf(prop) == IF PropTruthy(prop) THEN prop ELSE <<>>

(***************************************************************************)
(* JavaScript values held by the decoded records                           *)
(***************************************************************************)
UndefinedV == [t |-> "undefined"]

StrV(s) == [t |-> "string", s |-> s]

NumV(n) == [t |-> "number", n |-> n]

\* new Date(text)
DateV(text) == [t |-> "date", d |-> text]

BoolV(b) == [t |-> "boolean", b |-> b]

\* a converted element stored as it is: a string, or an object
RawV(node) == IF node.kind = "text" THEN StrV(node.text) ELSE [t |-> "object", x |-> node]

\* the list parsePlaylistItems builds: ids[i] is the 'Track ID' of item i
ItemsV(ids) == [t |-> "array", ids |-> ids]

Truthy(v) ==
    CASE v.t = "undefined" -> FALSE
      [] v.t = "string" -> v.s # <<>>
      [] v.t = "number" -> TruthyNum(v.n)
      [] v.t = "boolean" -> v.b
      [] OTHER -> TRUE

\* a record is the sequence of its properties [k, v] in insertion order
Has(obj, key) == \E i \in 1..Len(obj) : obj[i].k = key

Get(obj, key) ==
    IF Has(obj, key) THEN obj[CHOOSE i \in 1..Len(obj) : obj[i].k = key].v ELSE UndefinedV

\* obj[key] = value: a property the record has keeps its place
Set(obj, key, value) ==
    IF Has(obj, key)
    THEN [i \in 1..Len(obj) |-> IF obj[i].k = key THEN [k |-> key, v |-> value] ELSE obj[i]]
    ELSE Append(obj, [k |-> key, v |-> value])

(***************************************************************************)
(* AppleXmlParser.parseDict, parsePlaylistItems, cleanString               *)
(***************************************************************************)
CleanChar(c) ==
    CASE c = "&#38;" -> "&" [] c = "&#39;" -> "'" [] c = "&quot;" -> "\""
      [] c = "&lt;" -> "<" [] c = "&gt;" -> ">" [] OTHER -> c

\* cleanString of a string: each of the five entity forms is one element
cleanText(s) == [i \in 1..Len(s) |-> CleanChar(s[i])]

\* cleanString of any value: a value that is no string is returned as it is
cleanString(v) == IF v.t = "string" THEN StrV(cleanText(v.s)) ELSE v

\* lines 104-109: the six buckets of a dict
Buckets(dictData) ==
    [strings |-> ListOf(JsProp(dictData, "string")),
     integers |-> ListOf(JsProp(dictData, "integer")),
     dates |-> ListOf(JsProp(dictData, "date")),
     trues |-> Len(JsProp(dictData, "true")),
     falses |-> Len(JsProp(dictData, "false")),
     arrays |-> ListOf(JsProp(dictData, "array"))]

\* line 112: the cursors
NoneConsumed ==
    [stringIndex |-> 0, integerIndex |-> 0, dateIndex |-> 0,
     trueCount |-> 0, falseCount |-> 0, arrayIndex |-> 0]

RECURSIVE parseDict(_)
RECURSIVE parsePlaylistItems(_)
RECURSIVE DictLoop(_, _, _, _, _)

\* the for loop of lines 115-147 from key i on
DictLoop(keys, b, i, c, result) ==
    IF i > Len(keys) THEN result
    ELSE LET key == keys[i].text
         IN  IF c.stringIndex < Len(b.strings)
             THEN DictLoop(keys, b, i + 1, [c EXCEPT !.stringIndex = @ + 1],
                           Set(result, key, StrV(cleanText(b.strings[c.stringIndex + 1].text))))
             ELSE IF c.integerIndex < Len(b.integers)
             THEN DictLoop(keys, b, i + 1, [c EXCEPT !.integerIndex = @ + 1],
                           Set(result, key, NumV(parseInt(b.integers[c.integerIndex + 1].text))))
             ELSE IF c.dateIndex < Len(b.dates)
             THEN DictLoop(keys, b, i + 1, [c EXCEPT !.dateIndex = @ + 1],
                           Set(result, key, DateV(b.dates[c.dateIndex + 1].text)))
             ELSE IF c.trueCount < b.trues
             THEN DictLoop(keys, b, i + 1, [c EXCEPT !.trueCount = @ + 1],
                           Set(result, key, BoolV(TRUE)))
             ELSE IF c.falseCount < b.falses
             THEN DictLoop(keys, b, i + 1, [c EXCEPT !.falseCount = @ + 1],
                           Set(result, key, BoolV(FALSE)))
             ELSE IF c.arrayIndex < Len(b.arrays)
             THEN LET arrayData == b.arrays[c.arrayIndex + 1]
                      value == IF key = <<"Playlist Items">>
                                  /\ PropTruthy(JsProp(arrayData, "dict"))
                               THEN parsePlaylistItems(arrayData)
                               ELSE RawV(arrayData)
                  IN  DictLoop(keys, b, i + 1, [c EXCEPT !.arrayIndex = @ + 1],
                               Set(result, key, value))
             ELSE DictLoop(keys, b, i + 1, c, result)

parseDict(dictData) ==
    IF ~NodeTruthy(dictData) \/ ~PropTruthy(JsProp(dictData, "key")) THEN <<>>
    ELSE DictLoop(JsProp(dictData, "key"), Buckets(dictData), 1, NoneConsumed, <<>>)

parsePlaylistItems(arrayData) ==
    LET itemDicts == JsProp(arrayData, "dict")
        ids == [i \in 1..Len(itemDicts) |-> Get(parseDict(itemDicts[i]), <<"Track ID">>)]
    IN  ItemsV(SelectSeq(ids, Truthy))

(***************************************************************************)
(* AppleXmlParser: extractTracks, extractPlaylists, parseFile              *)
(***************************************************************************)
\* value.tag where value is itself a property: an array and undefined have none
PropOf(prop, tag) == IF Len(prop) = 1 THEN JsProp(prop[1], tag) ELSE <<>>

\* keys.indexOf(name) !== -1
DeclaresKey(keys, name) == \E i \in 1..Len(keys) : keys[i].text = <<name>>

\* line 60: the track has a name and an artist or an album artist
RetainsTrack(track) ==
    /\ Truthy(Get(track, <<"Name">>))
    /\ Truthy(Get(track, <<"Artist">>)) \/ Truthy(Get(track, <<"Album Artist">>))

\* a track index keyed by identifier: the entry seen last replaces the earlier one
RECURSIVE TracksLoopLastWins(_, _, _, _)
TracksLoopLastWins(trackIds, trackDicts, i, tracks) ==
    IF i > Len(trackIds) \/ i > Len(trackDicts) THEN tracks
    ELSE LET track == parseDict(trackDicts[i])
             id == NumV(parseInt(trackIds[i].text))
             OtherId(t) == Get(t, <<"Track ID">>) # id
         IN  IF RetainsTrack(track)
             THEN TracksLoopLastWins(trackIds, trackDicts, i + 1,
                      Append(SelectSeq(tracks, OtherId), Set(track, <<"Track ID">>, id)))
             ELSE TracksLoopLastWins(trackIds, trackDicts, i + 1, tracks)

\* the for loop of lines 55-64 from entry i on
RECURSIVE TracksLoop(_, _, _, _)
TracksLoop(trackIds, trackDicts, i, tracks) ==
    IF i > Len(trackIds) \/ i > Len(trackDicts) THEN tracks
    ELSE LET track == parseDict(trackDicts[i])
         IN  IF RetainsTrack(track)
             THEN TracksLoop(trackIds, trackDicts, i + 1,
                      Append(tracks,
                             Set(track, <<"Track ID">>, NumV(parseInt(trackIds[i].text)))))
             ELSE TracksLoop(trackIds, trackDicts, i + 1, tracks)

\* extractTracks(mainDict): this.tracks afterwards
extractTracks(mainDict, tracks) ==
    IF ~DeclaresKey(PropOf(mainDict, "key"), "Tracks") THEN tracks
    ELSE LET tracksDict == PropOf(mainDict, "dict")
         IN  IF \/ ~PropTruthy(tracksDict)
                \/ ~PropTruthy(PropOf(tracksDict, "key"))
                \/ ~PropTruthy(PropOf(tracksDict, "dict"))
             THEN tracks
             ELSE TracksLoop(PropOf(tracksDict, "key"), PropOf(tracksDict, "dict"), 1, tracks)

\* the for loop of lines 87-92 from playlist i on
RECURSIVE PlaylistsLoop(_, _, _)
PlaylistsLoop(playlistDicts, i, playlists) ==
    IF i > Len(playlistDicts) THEN playlists
    ELSE LET playlist == parseDict(playlistDicts[i])
         IN  IF Truthy(Get(playlist, <<"Name">>))
             THEN PlaylistsLoop(playlistDicts, i + 1, Append(playlists, playlist))
             ELSE PlaylistsLoop(playlistDicts, i + 1, playlists)

\* extractPlaylists(mainDict): this.playlists afterwards
extractPlaylists(mainDict, playlists) ==
    IF ~DeclaresKey(PropOf(mainDict, "key"), "Playlists") THEN playlists
    ELSE LET playlistsArray == PropOf(mainDict, "array")
         IN  IF ~PropTruthy(playlistsArray) \/ ~PropTruthy(PropOf(playlistsArray, "dict"))
             THEN playlists
             ELSE PlaylistsLoop(PropOf(playlistsArray, "dict"), 1, playlists)

\* lines 16-19: result.plist and plist.dict are there
ValidFormat(doc) ==
    /\ doc.tag = "plist"
    /\ NodeTruthy(Xml2js(doc))
    /\ PropTruthy(JsProp(Xml2js(doc), "dict"))

(***************************************************************************)
(* AppleXmlParser: getTracksForSpotify, getPlaylistInfo, listPlaylists     *)
(***************************************************************************)
\* value || ''
OrEmpty(v) == IF Truthy(v) THEN v ELSE StrV(<<>>)

RECURSIVE DigitsOf(_)
DigitsOf(n) ==
    LET d == CHOOSE c \in {"0", "1", "2", "3", "4", "5", "6", "7", "8", "9"} :
                 DigitVal(c) = n % 10
    IN  IF n < 10 THEN <<d>> ELSE Append(DigitsOf(n \div 10), d)

\* value.toString() of a truthy value
toString(v) ==
    CASE v.t = "string" -> v.s
      [] v.t = "number" -> IF v.n.val < 0 THEN <<"-">> \o DigitsOf(-v.n.val)
                           ELSE DigitsOf(v.n.val)
      [] v.t = "boolean" -> <<"t", "r", "u", "e">>
      [] v.t = "date" -> <<"Invalid Date">>
      [] OTHER -> <<"[object Object]">>

\* the number a value becomes in value / 1000: a number is itself, true is 1, a
\* string of digits is its value; the other strings, the dates (none of the
\* model's date texts is a date) and the objects are NaN
ToNumber(v) ==
    CASE v.t = "number" -> v.n
      [] v.t = "boolean" -> Num(IF v.b THEN 1 ELSE 0)
      [] v.t = "string" ->
            IF v.s # <<>> /\ \A i \in 1..Len(v.s) : IsDigit(v.s[i])
            THEN Num(DigitsValue(v.s, 0)) ELSE NaN
      [] OTHER -> NaN

\* Math.round(x / 1000)
RoundThousandth(x) == IF x.nan THEN NaN ELSE Num((x.val + 500) \div 1000)

xmlCanonical(track) ==
    [name |-> cleanString(OrEmpty(Get(track, <<"Name">>))),
     artist |-> cleanString(IF Truthy(Get(track, <<"Artist">>))
                            THEN Get(track, <<"Artist">>)
                            ELSE OrEmpty(Get(track, <<"Album Artist">>))),
     album |-> cleanString(OrEmpty(Get(track, <<"Album">>))),
     year |-> IF Truthy(Get(track, <<"Year">>))
              THEN StrV(toString(Get(track, <<"Year">>))) ELSE StrV(<<>>),
     duration |-> IF Truthy(Get(track, <<"Total Time">>))
                  THEN RoundThousandth(ToNumber(Get(track, <<"Total Time">>)))
                  ELSE Num(0),
     originalTrack |-> track]

\* the filter of getTracksForSpotify: track.name && track.artist
xmlKeepsTrack(track) == Truthy(track.name) /\ Truthy(track.artist)

\* this.playlists.find(p => p.Name === playlistName): the position of the first
\* playlist with that name, 0 when there is none
FindPlaylist(playlists, playlistName) ==
    IF \E i \in 1..Len(playlists) : Get(playlists[i], <<"Name">>) = playlistName
    THEN CHOOSE i \in 1..Len(playlists) :
             /\ Get(playlists[i], <<"Name">>) = playlistName
             /\ \A j \in 1..(i - 1) : Get(playlists[j], <<"Name">>) # playlistName
    ELSE 0

IgnoresMembership(playlist) == FALSE

\* line 180, second disjunct: !playlist['Playlist Items']
LacksMembership(playlist) == ~Truthy(Get(playlist, <<"Playlist Items">>))

\* trackIds.includes(track['Track ID'])
IncludesId(trackIds, id) == \E i \in 1..Len(trackIds) : trackIds[i] = id

\* lines 175-198; playlistName is a string or, for null, undefined
xmlGetTracksForSpotify(tracks, playlists, playlistName) ==
    LET Convert(tracksToConvert) ==
            [kind |-> "ok",
             val |-> SelectSeq([i \in 1..Len(tracksToConvert) |->
                                   xmlCanonical(tracksToConvert[i])], xmlKeepsTrack)]
    IN  IF ~Truthy(playlistName) THEN Convert(tracks)
        ELSE LET p == FindPlaylist(playlists, playlistName)
             IN  IF p = 0 \/ LacksMembership(playlists[p])
                 THEN [kind |-> "error", err |-> "not found or has no tracks"]
                 ELSE LET items == Get(playlists[p], <<"Playlist Items">>)
                      IN  IF items.t # "array"
                          THEN [kind |-> "error", err |-> "TypeError"]
                          ELSE LET trackIds == SelectSeq(items.ids, Truthy)
                                   InPlaylist(track) ==
                                       IncludesId(trackIds, Get(track, <<"Track ID">>))
                               IN  Convert(SelectSeq(tracks, InPlaylist))

\* value.length of a truthy value: an array and a string have one
LengthOf(v) ==
    CASE v.t = "array" -> NumV(Num(Len(v.ids)))
      [] v.t = "string" -> NumV(Num(Len(v.s)))
      [] OTHER -> UndefinedV

\* p['Playlist Items'] ? p['Playlist Items'].length : 0
ItemCount(playlist) ==
    IF Truthy(Get(playlist, <<"Playlist Items">>))
    THEN LengthOf(Get(playlist, <<"Playlist Items">>))
    ELSE NumV(Num(0))

PlaylistSummary(p) ==
    [name |-> Get(p, <<"Name">>),
     itemCount |-> ItemCount(p),
     master |-> Truthy(Get(p, <<"Master">>)),
     folder |-> Truthy(Get(p, <<"Parent Persistent ID">>))]

HasName(summary) == Truthy(summary.name)

\* lines 200-227
xmlGetPlaylistInfo(tracks, playlists, playlistName) ==
    IF Truthy(playlistName)
    THEN LET p == FindPlaylist(playlists, playlistName)
         IN  IF p = 0 THEN [kind |-> "error", err |-> "not found"]
             ELSE LET playlistTracks == xmlGetTracksForSpotify(tracks, playlists, playlistName)
                  IN  IF playlistTracks.kind = "error" THEN playlistTracks
                      ELSE [kind |-> "ok",
                            val |-> [name |-> Get(playlists[p], <<"Name">>),
                                     totalTracks |-> ItemCount(playlists[p]),
                                     validTracks |-> Len(playlistTracks.val),
                                     playlist |-> playlists[p]]]
    ELSE [kind |-> "ok",
          val |-> [totalTracks |-> Len(tracks),
                   validTracks |-> Len(xmlGetTracksForSpotify(tracks, playlists, UndefinedV).val),
                   playlists |-> SelectSeq([i \in 1..Len(playlists) |->
                                               PlaylistSummary(playlists[i])], HasName)]]

\* a filter that leaves the master library in
ListsMaster(p) ==
    /\ Truthy(Get(p, <<"Name">>))
    /\ ~Truthy(Get(p, <<"Parent Persistent ID">>))

\* the filter of listPlaylists: no folder and not the master library
Listed(p) ==
    /\ Truthy(Get(p, <<"Name">>))
    /\ ~Truthy(Get(p, <<"Parent Persistent ID">>))
    /\ ~Truthy(Get(p, <<"Master">>))

xmlListPlaylists(playlists) ==
    LET shown == SelectSeq(playlists, Listed)
    IN  [i \in 1..Len(shown) |->
            [name |-> Get(shown[i], <<"Name">>),
             itemCount |-> ItemCount(shown[i]),
             persistent_id |-> Get(shown[i], <<"Playlist Persistent ID">>)]]

(***************************************************************************)
(* The inputs of parseDict                                                 *)
(***************************************************************************)
ItemEl(id) == DictEl(<<KeyEl("Track ID"), IntegerEl(id)>>)

\* a dict is written as its entries <<key, value>>; a value of <<>> is a key
\* followed by no value, and a <real> is a value parseDict reads no bucket of
DictEntries ==
    { <<KeyEl("Name"), <<StringEl(<<"n1">>)>> >>,
      <<KeyEl("Artist"), <<StringEl(<<"a1", "&#38;", "b1">>)>> >>,
      <<KeyEl("Comments"), <<StringEl(<<>>)>> >>,
      <<KeyEl("Track ID"), <<IntegerEl(<<"5">>)>> >>,
      <<KeyEl("Date Added"), <<DateEl(<<"d1">>)>> >>,
      <<KeyEl("Compilation"), <<TrueEl>> >>,
      <<KeyEl("Disabled"), <<FalseEl>> >>,
      <<KeyEl("Playlist Items"), <<ArrayEl(<<ItemEl(<<"1">>), ItemEl(<<"2">>)>>)>> >>,
      <<KeyEl("Playlist Items"), <<ArrayEl(<<>>)>> >>,
      <<KeyEl("Other"), <<ArrayEl(<<StringEl(<<"s1">>)>>)>> >>,
      <<KeyEl("Rating"), <<RealEl(<<"0", ".", "5">>)>> >>,
      <<KeyEl("Size"), <<>> >> }

RECURSIVE Flatten(_)
Flatten(entries) ==
    IF entries = <<>> THEN <<>>
    ELSE <<entries[1][1]>> \o entries[1][2] \o Flatten(Tail(entries))

\* a dict declares each key once
DistinctKeys(entries) ==
    \A i, j \in 1..Len(entries) : entries[i][1] = entries[j][1] => i = j

DictEls ==
    { DictEl(Flatten(entries)) :
        entries \in {e \in SeqsUpTo(DictEntries, MaxKeys) : DistinctKeys(e)} }

InitDict ==
    /\ op = "init"
    /\ laterFiles = <<>>
    /\ NoRun
    /\ fileExt = ".xml"
    /\ dDict \in DictEls
    /\ dResult = <<>>
    /\ xDoc = [tag |-> "plist", text |-> <<>>, kids |-> <<>>]
    /\ xTracks = <<>>
    /\ xPlaylists = <<>>
    /\ xArg = [t |-> "undefined"]
    /\ xRet = [kind |-> "none"]
    /\ NoMatch
    /\ tContent = <<>>
    /\ tHeaders = <<>>
    /\ tTracks = <<>>
    /\ tRet = [kind |-> "none"]

\* this.parseDict(dictData) on the xml2js form of the dict
CallParseDict ==
    /\ fileExt = ".xml"
    /\ op = "init"
    /\ dDict \in DictEls
    /\ dResult' = parseDict(Xml2js(dDict))
    /\ op' = "parseDict"
    /\ UNCHANGED <<runVars, fileExt, laterFiles, dDict, matchVars, tabVars, xmlVars>>

NextDict == CallParseDict

SpecDict == InitDict /\ [][NextDict]_vars

(***************************************************************************)
(* The library documents                                                   *)
(***************************************************************************)
\* the entries <<id, track dict>> of a Tracks dict
TrackNA == <<"1", DictEl(<<KeyEl("Name"), StringEl(<<"n">>),
                           KeyEl("Artist"), StringEl(<<"a">>),
                           KeyEl("Total Time"), IntegerEl(<<"2", "5", "0", "0">>)>>)>>

TrackAlbumArtist == <<"2", DictEl(<<KeyEl("Name"), StringEl(<<"m">>),
                                    KeyEl("Album Artist"), StringEl(<<"b">>)>>)>>

\* declares the identifier of TrackNA again
TrackSameId == <<"1", DictEl(<<KeyEl("Name"), StringEl(<<"k">>),
                               KeyEl("Artist"), StringEl(<<"a">>)>>)>>

TrackNoArtist == <<"3", DictEl(<<KeyEl("Name"), StringEl(<<"m">>)>>)>>

TrackIdZero == <<"0", DictEl(<<KeyEl("Name"), StringEl(<<"z">>),
                               KeyEl("Artist"), StringEl(<<"a">>)>>)>>

\* an entry in the key order of a real export: the integer comes first
TrackIdFirst == <<"4", DictEl(<<KeyEl("Track ID"), IntegerEl(<<"4">>),
                                KeyEl("Name"), StringEl(<<"q">>),
                                KeyEl("Artist"), StringEl(<<"a">>)>>)>>

TrackLists ==
    { <<>>,
      <<TrackNA>>,
      <<TrackNA, TrackAlbumArtist>>,
      <<TrackNA, TrackSameId>>,
      <<TrackSameId, TrackAlbumArtist, TrackNA>>,
      <<TrackNoArtist, TrackIdZero, TrackAlbumArtist>>,
      <<TrackIdFirst, TrackNA, TrackNoArtist, TrackSameId>> }

RECURSIVE ItemEls(_)
ItemEls(ids) == IF ids = <<>> THEN <<>> ELSE <<ItemEl(<<Head(ids)>>)>> \o ItemEls(Tail(ids))

PlaylistEls ==
    { DictEl(<<KeyEl("Name"), StringEl(<<"P">>),
               KeyEl("Playlist Items"), ArrayEl(ItemEls(<<"1", "2">>))>>),
      DictEl(<<KeyEl("Name"), StringEl(<<"Q">>),
               KeyEl("Playlist Items"), ArrayEl(ItemEls(<<"2", "2", "9", "0">>))>>),
      DictEl(<<KeyEl("Name"), StringEl(<<"P">>)>>),
      DictEl(<<KeyEl("Name"), StringEl(<<"L">>), KeyEl("Master"), TrueEl,
               KeyEl("Playlist Items"), ArrayEl(ItemEls(<<"1">>))>>),
      DictEl(<<KeyEl("Name"), StringEl(<<"F">>),
               KeyEl("Parent Persistent ID"), StringEl(<<"f">>),
               KeyEl("Playlist Items"), ArrayEl(ItemEls(<<"2">>))>>),
      DictEl(<<KeyEl("Playlist Items"), ArrayEl(ItemEls(<<"1">>))>>),
      DictEl(<<KeyEl("Name"), StringEl(<<"Q">>), KeyEl("Playlist Items"), ArrayEl(<<>>)>>),
      DictEl(<<KeyEl("Name"), StringEl(<<"Q">>),
               KeyEl("Playlist Items"), ArrayEl(ItemEls(<<"1">>)),
               KeyEl("Playlist Persistent ID"), StringEl(<<"s">>)>>),
      DictEl(<<KeyEl("Name"), StringEl(<<"R">>),
               KeyEl("Parent Persistent ID"), StringEl(<<>>),
               KeyEl("Playlist Persistent ID"), StringEl(<<"r">>),
               KeyEl("Playlist Items"), ArrayEl(ItemEls(<<"1">>))>>) }

RECURSIVE TrackEntryEls(_)
TrackEntryEls(entries) ==
    IF entries = <<>> THEN <<>>
    ELSE <<KeyEl(entries[1][1]), entries[1][2]>> \o TrackEntryEls(Tail(entries))

TracksEntry(entries) == <<KeyEl("Tracks"), DictEl(TrackEntryEls(entries))>>

PlaylistsEntry(playlists) == <<KeyEl("Playlists"), ArrayEl(playlists)>>

VersionEntry == <<KeyEl("Major Version"), IntegerEl(<<"1">>)>>

OtherDictEntry == <<KeyEl("Other"), DictEl(<<KeyEl("x"), StringEl(<<"y">>)>>)>>

OtherArrayEntry == <<KeyEl("Others"), ArrayEl(<<StringEl(<<"y">>)>>)>>

\* the top-level dict of a library: the Tracks and Playlists entries among others
TopShapes ==
    {"plain", "playlists first", "dict before", "dict after", "array before",
     "array after", "no Tracks", "no Playlists", "no dict", "empty dict"}

Plist(kids) == El("plist", <<>>, kids)

Library(shape, entries, playlists) ==
    LET t == TracksEntry(entries)
        p == PlaylistsEntry(playlists)
    IN  CASE shape = "plain" -> Plist(<<DictEl(VersionEntry \o t \o p)>>)
          [] shape = "playlists first" -> Plist(<<DictEl(p \o VersionEntry \o t)>>)
          [] shape = "dict before" -> Plist(<<DictEl(OtherDictEntry \o t \o p)>>)
          [] shape = "dict after" -> Plist(<<DictEl(t \o p \o OtherDictEntry)>>)
          [] shape = "array before" -> Plist(<<DictEl(t \o OtherArrayEntry \o p)>>)
          [] shape = "array after" -> Plist(<<DictEl(t \o p \o OtherArrayEntry)>>)
          [] shape = "no Tracks" -> Plist(<<DictEl(VersionEntry \o p)>>)
          [] shape = "no Playlists" -> Plist(<<DictEl(VersionEntry \o t)>>)
          [] shape = "no dict" -> Plist(<<>>)
          [] shape = "empty dict" -> Plist(<<DictEl(<<>>)>>)

Documents ==
    { Library("plain", entries, playlists) :
        entries \in TrackLists, playlists \in SeqsUpTo(PlaylistEls, MaxPlaylists) }
    \cup
    { Library(shape, entries, playlists) :
        shape \in TopShapes,
        entries \in {<<TrackNA, TrackAlbumArtist>>},
        playlists \in SeqsUpTo(PlaylistEls, 1) }

\* the playlistName arguments: null, and names of which "Z" names no playlist
PlaylistArgs == {UndefinedV, StrV(<<"P">>), StrV(<<"Q">>), StrV(<<"Z">>)}

InitXml ==
    /\ op = "init"
    /\ laterFiles = <<>>
    /\ NoRun
    /\ fileExt = ".xml"
    /\ xDoc \in Documents
    /\ xTracks = <<>>
    /\ xPlaylists = <<>>
    /\ xArg = UndefinedV
    /\ xRet = [kind |-> "none"]
    /\ dDict = [tag |-> "dict", text |-> <<>>, kids |-> <<>>]
    /\ dResult = <<>>
    /\ NoMatch
    /\ tContent = <<>>
    /\ tHeaders = <<>>
    /\ tTracks = <<>>
    /\ tRet = [kind |-> "none"]

\* AppleXmlParser.parseFile: called once per run by index.js (lines 90, 193), and
\* again by a caller that hands the same parser a later file
XmlParseFile ==
    /\ fileExt = ".xml"
    /\ op = "init" \/ laterFiles # <<>>
    /\ LET doc == IF op = "init" THEN xDoc ELSE Head(laterFiles)
       IN  /\ xDoc' = doc
           /\ laterFiles' = IF op = "init" THEN laterFiles ELSE Tail(laterFiles)
           /\ IF ~ValidFormat(doc)
              THEN /\ xRet' = [kind |-> "error", err |-> "Invalid iTunes/Apple Music XML format"]
                   /\ UNCHANGED <<xTracks, xPlaylists>>
              ELSE LET mainDict == JsProp(Xml2js(doc), "dict")
                   IN  /\ xTracks' = extractTracks(mainDict, xTracks)
                       /\ xPlaylists' = extractPlaylists(mainDict, xPlaylists)
                       /\ xRet' = [kind |-> "ok", val |-> xTracks']
    /\ op' = "parseFile"
    /\ UNCHANGED <<runVars, fileExt, xArg, matchVars, tabVars, dictVars>>

\* AppleXmlParser.getTracksForSpotify(playlistName)
XmlGetTracksForSpotify ==
    /\ fileExt = ".xml"
    /\ op # "init"
    /\ \E playlistName \in PlaylistArgs :
          /\ xArg' = playlistName
          /\ xRet' = xmlGetTracksForSpotify(xTracks, xPlaylists, playlistName)
    /\ op' = "getTracksForSpotify"
    /\ UNCHANGED <<runVars, fileExt, laterFiles, xDoc, xTracks, xPlaylists, matchVars, tabVars, dictVars>>

\* AppleXmlParser.getPlaylistInfo(playlistName)
XmlGetPlaylistInfo ==
    /\ fileExt = ".xml"
    /\ op # "init"
    /\ \E playlistName \in PlaylistArgs :
          /\ xArg' = playlistName
          /\ xRet' = xmlGetPlaylistInfo(xTracks, xPlaylists, playlistName)
    /\ op' = "getPlaylistInfo"
    /\ UNCHANGED <<runVars, fileExt, laterFiles, xDoc, xTracks, xPlaylists, matchVars, tabVars, dictVars>>

\* AppleXmlParser.listPlaylists()
XmlListPlaylists ==
    /\ fileExt = ".xml"
    /\ op # "init"
    /\ xArg' = UndefinedV
    /\ xRet' = [kind |-> "ok", val |-> xmlListPlaylists(xPlaylists)]
    /\ op' = "listPlaylists"
    /\ UNCHANGED <<runVars, fileExt, laterFiles, xDoc, xTracks, xPlaylists, matchVars, tabVars, dictVars>>

NextXml == XmlParseFile \/ XmlGetTracksForSpotify \/ XmlGetPlaylistInfo \/ XmlListPlaylists

SpecXml == InitXml /\ [][NextXml]_vars

(***************************************************************************)
(* A run of either parser, and a run of any part of the program            *)
(***************************************************************************)
InitParse == InitTab \/ InitXml

NextParse == NextTab \/ NextXml

SpecParse == InitParse /\ [][NextParse]_vars

\* one parser instance that is handed up to MaxLater further files after its first
InitLife ==
    LET documents == { Library("plain", <<TrackNA>>, <<>>),
                       Library("plain", <<TrackAlbumArtist, TrackNA>>, <<DictEl(<<KeyEl("Name"), StringEl(<<"P">>),
                                        KeyEl("Playlist Items"),
                                        ArrayEl(ItemEls(<<"1", "2">>))>>)>>),
                       Library("no Tracks", <<>>, <<>>),
                       Library("no dict", <<>>, <<>>) }
        contents == { <<>>,
                      <<"Name", "\t", "Artist", "\n", "x", "\t", "y">>,
                      <<"Name", "\t", "Artist", "\n", "x", "\t", "y", "\n", "\t", "y">> }
    IN  /\ op = "init"
        /\ fileExt \in {".txt", ".xml"}
        /\ NoRun
        /\ NoMatch
        /\ dDict = [tag |-> "dict", text |-> <<>>, kids |-> <<>>]
        /\ dResult = <<>>
        /\ xTracks = <<>>
        /\ xPlaylists = <<>>
        /\ xArg = UndefinedV
        /\ xRet = [kind |-> "none"]
        /\ tHeaders = <<>>
        /\ tTracks = <<>>
        /\ tRet = [kind |-> "none"]
        /\ IF fileExt = ".xml"
           THEN /\ tContent = <<>>
                /\ xDoc \in documents
                /\ laterFiles \in SeqsUpTo(documents, MaxLater)
           ELSE /\ xDoc = [tag |-> "plist", text |-> <<>>, kids |-> <<>>]
                /\ tContent \in contents
                /\ laterFiles \in SeqsUpTo(contents, MaxLater)

SpecLife == InitLife /\ [][NextParse]_vars

(***************************************************************************)
(* SpotifyClient.searchTrack and searchAndMatchTracks, index.js            *)
(* convertPlaylist                                                         *)
(***************************************************************************)
AlwaysFallback(tracks) == TRUE

\* line 29: tracks.length === 0
NeedsFallback(tracks) == Len(tracks) = 0

\* searchTrack (lines 9-47) given what the outside does: whether the token fetch
\* succeeds and the replies of the server to a first and a second request.  A
\* query is its kind and its terms; the album term is added only if non-empty.
searchTrack(trackName, artistName, albumName, tokenOk, first, second) ==
    LET primary == [q |-> "track: artist: album:", track |-> trackName,
                    artist |-> artistName, album |-> albumName]
        fallback == [q |-> "free text", track |-> trackName,
                     artist |-> artistName, album |-> <<>>]
    IN  IF ~tokenOk
        THEN [token |-> FALSE, requests |-> <<>>, replies |-> <<>>, results |-> <<>>]
        ELSE IF ~first.ok
        THEN [token |-> TRUE, requests |-> <<primary>>, replies |-> <<first>>,
              results |-> <<>>]
        ELSE IF NeedsFallback(first.items)
        THEN [token |-> TRUE, requests |-> <<primary, fallback>>,
              replies |-> <<first, second>>,
              results |-> IF second.ok THEN second.items ELSE <<>>]
        ELSE [token |-> TRUE, requests |-> <<primary>>, replies |-> <<first>>,
              results |-> first.items]

\* the replies of the server to a search request: a failure, or a list of
\* candidates, among them one without artists
Replies ==
    LET good == Cand(<<"x">>, << <<"y">> >>, <<"m">>, 0)
        other == Cand(<<"c">>, << <<"y">> >>, <<"m">>, 0)
        bare == Cand(<<"x">>, <<>>, <<"m">>, 0)
    IN  {[ok |-> FALSE, items |-> <<>>]}
        \cup {[ok |-> TRUE, items |-> items] :
                 items \in {<<>>, <<good>>, <<other, good>>, <<bare>>, <<good, bare>>}}

\* a classification that also records every track as not found
ClassifiedTwice(res, track, bestMatch) ==
    IF bestMatch # <<>>
    THEN [res EXCEPT !.found = Append(@, [original |-> track, spotify |-> bestMatch[1]]),
                     !.notFound = Append(@, track)]
    ELSE [res EXCEPT !.notFound = Append(@, track)]

\* lines 165-175: the track goes to found with its match or to notFound.  A
\* track object is written as its position in appleTracks, bestMatch as <<>> for
\* null and <<candidate>> otherwise.
Classified(res, track, bestMatch) ==
    IF bestMatch # <<>>
    THEN [res EXCEPT !.found = Append(@, [original |-> track, spotify |-> bestMatch[1]])]
    ELSE [res EXCEPT !.notFound = Append(@, track)]

FoundAny(searchResults) == FALSE

\* index.js line 145: searchResults.found.length === 0
FoundNone(searchResults) == Len(searchResults.found) = 0

\* index.js lines 172-176: the text of the not-found report.  The source writes
\* the separators as \\t and \\n, which are a backslash followed by a letter.
RECURSIVE failedContent(_, _)
failedContent(tracks, notFound) ==
    IF notFound = <<>> THEN <<>>
    ELSE LET track == tracks[Head(notFound)]
         IN  track.name \o <<"\\", "t">> \o track.artist \o <<"\\", "t">> \o track.album
             \o (IF Len(notFound) > 1 THEN <<"\\", "n">> ELSE <<>>)
             \o failedContent(tracks, Tail(notFound))

InitConvert ==
    LET header == <<"Name", "\t", "Artist", "\t", "Album">>
        contents == { <<>>, header,
                      header \o <<"\n", "x">>,
                      header \o <<"\n", "x", "\t", "y", "\t", "m">>,
                      header \o <<"\n", "x", "\t", "y", "\t", "m", "\n", "z", "\t", "y">> }
        playlist == DictEl(<<KeyEl("Name"), StringEl(<<"P">>),
                             KeyEl("Playlist Items"), ArrayEl(ItemEls(<<"1", "2">>))>>)
        track == <<"1", DictEl(<<KeyEl("Name"), StringEl(<<"x">>),
                                 KeyEl("Artist"), StringEl(<<"y">>)>>)>>
        documents == { Library("plain", <<track, TrackAlbumArtist>>, <<playlist>>),
                       Library("no dict", <<>>, <<>>) }
    IN  /\ op = "init"
        /\ laterFiles = <<>>
        /\ fileExt \in {".txt", ".xml"}
        /\ NoMatch
        /\ dDict = [tag |-> "dict", text |-> <<>>, kids |-> <<>>]
        /\ dResult = <<>>
        /\ xTracks = <<>>
        /\ xPlaylists = <<>>
        /\ xArg = UndefinedV
        /\ xRet = [kind |-> "none"]
        /\ tHeaders = <<>>
        /\ tTracks = <<>>
        /\ tRet = [kind |-> "none"]
        /\ appleTracks = <<>>
        /\ loopIndex = 0
        /\ results = [found |-> <<>>, notFound |-> <<>>, total |-> 0]
        /\ search = [token |-> TRUE, requests |-> <<>>, replies |-> <<>>, results |-> <<>>]
        /\ IF fileExt = ".xml"
           THEN /\ tContent = <<>>
                /\ xDoc \in documents
                /\ \E playlistName \in {UndefinedV, StrV(<<"P">>), StrV(<<"Z">>)} :
                      run = [state |-> "start", error |-> "", playlist |-> playlistName,
                             written |-> FALSE, report |-> <<>>]
           ELSE /\ xDoc = [tag |-> "plist", text |-> <<>>, kids |-> <<>>]
                /\ tContent \in contents
                /\ run = [state |-> "start", error |-> "", playlist |-> UndefinedV,
                          written |-> FALSE, report |-> <<>>]

\* convertPlaylist from the parse to the call of searchAndMatchTracks (index.js
\* lines 87-132, spotifyClient.js lines 150-156): an error of the parse or of the
\* playlist lookup, an empty track list and a failed sign-in end the run
ConvertBegin ==
    /\ run.state = "start"
    /\ op = "parseFile"
    /\ \E signedIn \in BOOLEAN :
          LET Text(v) == IF v.t = "string" THEN v.s ELSE <<>>
              Plain(t) == [name |-> Text(t.name), artist |-> Text(t.artist),
                           album |-> Text(t.album), duration |-> t.duration]
              info == xmlGetPlaylistInfo(xTracks, xPlaylists, run.playlist)
              looked == xmlGetTracksForSpotify(xTracks, xPlaylists, run.playlist)
              failed == IF fileExt = ".xml"
                        THEN xRet.kind = "error" \/ info.kind = "error" \/ looked.kind = "error"
                        ELSE tRet.kind = "error"
              tracks == IF failed THEN <<>>
                        ELSE IF fileExt = ".xml"
                        THEN [k \in 1..Len(looked.val) |-> Plain(looked.val[k])]
                        ELSE tabGetTracksForSpotify(tTracks)
              error == IF failed
                       THEN (IF fileExt = ".xml" /\ xRet.kind # "error"
                             THEN "Playlist not found" ELSE "Error parsing")
                       ELSE IF Len(tracks) = 0
                       THEN "No valid tracks found in the playlist file"
                       ELSE IF ~signedIn THEN "Authentication failed"
                       ELSE ""
          IN  IF error # ""
              THEN /\ run' = [run EXCEPT !.state = "aborted", !.error = error]
                   /\ UNCHANGED <<appleTracks, results>>
              ELSE /\ run' = [run EXCEPT !.state = "searching"]
                   /\ appleTracks' = tracks
                   /\ results' = [found |-> <<>>, notFound |-> <<>>, total |-> Len(tracks)]
    /\ op' = "convertPlaylist"
    /\ UNCHANGED <<loopIndex, search, fileExt, laterFiles, matchVars, tabVars, dictVars,
                   xmlVars>>

\* searchAndMatchTracks line 162: the search for track i
SearchTrack ==
    /\ run.state = "searching"
    /\ op \in {"convertPlaylist", "classify"}
    /\ loopIndex < Len(appleTracks)
    /\ \E tokenOk \in BOOLEAN, first \in Replies, second \in Replies :
          LET track == appleTracks[loopIndex + 1]
          IN  search' = searchTrack(track.name, track.artist, track.album,
                                    tokenOk, first, second)
    /\ op' = "searchTrack"
    /\ UNCHANGED <<appleTracks, loopIndex, results, run, fileExt, laterFiles, matchVars,
                   tabVars, dictVars, xmlVars>>

\* searchAndMatchTracks lines 163-178: track i is matched and classified; a
\* TypeError of findBestMatch or of the log line 171, which reads
\* bestMatch.artists[0].name, rejects the call and ends the run (index.js 33-36)
Classify ==
    /\ run.state = "searching"
    /\ op = "searchTrack"
    /\ LET r == findBestMatch(search.results, appleTracks[loopIndex + 1])
           bestMatch == IF r.kind = "track" THEN <<search.results[r.idx]>> ELSE <<>>
       IN  IF r.kind = "throw"
           THEN /\ run' = [run EXCEPT !.state = "aborted", !.error = "TypeError"]
                /\ UNCHANGED <<results, loopIndex>>
           ELSE /\ results' = Classified(results, loopIndex + 1, bestMatch)
                /\ IF bestMatch # <<>> /\ bestMatch[1].artists = <<>>
                   THEN /\ run' = [run EXCEPT !.state = "aborted", !.error = "TypeError"]
                        /\ UNCHANGED loopIndex
                   ELSE /\ loopIndex' = loopIndex + 1
                        /\ UNCHANGED run
    /\ op' = "classify"
    /\ UNCHANGED <<appleTracks, search, fileExt, laterFiles, matchVars, tabVars, dictVars,
                   xmlVars>>

\* convertPlaylist after searchAndMatchTracks has returned (index.js lines
\* 134-178): the playlist is created and filled, then the report is written
ConvertFinish ==
    /\ run.state = "searching"
    /\ op \in {"convertPlaylist", "classify"}
    /\ loopIndex = Len(appleTracks)
    /\ \E created \in BOOLEAN, written \in BOOLEAN :
          IF FoundNone(results)
          THEN run' = [run EXCEPT !.state = "aborted",
                                  !.error = "No tracks were found on Spotify"]
          ELSE IF ~created
          THEN run' = [run EXCEPT !.state = "aborted",
                                  !.error = "Failed to create playlist"]
          ELSE IF Len(results.notFound) = 0
          THEN run' = [run EXCEPT !.state = "done"]
          ELSE IF ~written
          THEN run' = [run EXCEPT !.state = "aborted", !.error = "Failed to write report"]
          ELSE run' = [run EXCEPT !.state = "done", !.written = TRUE,
                           !.report = <<"Name", "\\", "t", "Artist", "\\", "t", "Album",
                                        "\\", "n">>
                                      \o failedContent(appleTracks, results.notFound)]
    /\ op' = "finish"
    /\ UNCHANGED <<appleTracks, loopIndex, results, search, fileExt, laterFiles, matchVars,
                   tabVars, dictVars, xmlVars>>

NextConvert ==
    TabParseFile \/ XmlParseFile \/ ConvertBegin \/ SearchTrack \/ Classify \/ ConvertFinish

SpecConvert == InitConvert /\ [][NextConvert]_vars

Init == InitMatch \/ InitTab \/ InitDict \/ InitXml \/ InitLife \/ InitConvert

Next == NextMatch \/ NextTab \/ NextDict \/ NextXml \/ NextConvert

Spec == Init /\ [][Next]_vars

(***************************************************************************)
(* Claims about findBestMatch                                              *)
(***************************************************************************)
Returned == op = "findBestMatch"

\* a candidate the loop can score: its name, first artist and (when the original
\* track has an album) album name are present
Scorable(j) == ~ScoreThrows(mCands[j], mTrack)

\* the tiers as the specification words them
TierOf(a, b, exact, partial) ==
    IF a = b THEN exact
    ELSE IF Includes(a, b) \/ Includes(b, a) THEN partial
    ELSE 0

NameTier(j) ==
    TierOf(normalizeString(mCands[j].name), normalizeString(mTrack.name), 10, 5)

ArtistTier(j) ==
    TierOf(normalizeString(mCands[j].artists[1]), normalizeString(mTrack.artist), 10, 5)

AlbumTier(j) ==
    IF mTrack.album = <<>> THEN 0
    ELSE TierOf(normalizeString(mCands[j].album), normalizeString(mTrack.album), 3, 1)

\* the difference in seconds is d / 1000 for the difference d in milliseconds
DurationTier(j) ==
    LET a == mTrack.duration
        b == mCands[j].duration_ms
    IN  IF a.nan \/ b.nan \/ a.val = 0 \/ b.val = 0 THEN 0
        ELSE LET d == Abs(a.val * 1000 - b.val)
             IN  IF d <= 2 * 1000 THEN 2
                 ELSE IF d > 2 * 1000 /\ d <= 5 * 1000 THEN 1
                 ELSE 0

\* C1: with two or more candidates, all of them scorable, findBestMatch returns a
\* candidate whose score is the maximum over all candidates, and the earliest of
\* the candidates with that score (the first candidate when every score is 0).
C1_EarliestMaximum ==
    (Returned /\ Len(mCands) >= 2 /\ \A j \in 1..Len(mCands) : Scorable(j))
    => /\ mResult.kind = "track"
       /\ mResult.idx \in 1..Len(mCands)
       /\ Len(mScores) = Len(mCands)
       /\ \A j \in 1..Len(mCands) : mScores[j] <= mScores[mResult.idx]
       /\ \A j \in 1..(mResult.idx - 1) : mScores[j] < mScores[mResult.idx]
       /\ (\A j \in 1..Len(mCands) : mScores[j] = 0) => mResult.idx = 1

\* C1 witness: a later candidate ties with the maximum reached earlier, which is
\* not the first candidate, and the earlier one is returned
C1_Witness ==
    /\ Returned
    /\ Len(mCands) = 3
    /\ mResult.kind = "track"
    /\ mResult.idx = 2
    /\ mScores[3] = mScores[2]
    /\ mScores[1] < mScores[2]

\* C2: findBestMatch returns null for an empty list, and returns the only
\* candidate of a one-element list without computing a score, however badly the
\* candidate matches and even if it could not be scored at all.
C2_EmptyAndSingle ==
    Returned =>
        /\ Len(mCands) = 0 => mResult.kind = "null" /\ mScores = <<>>
        /\ Len(mCands) = 1 => mResult.kind = "track" /\ mResult.idx = 1 /\ mScores = <<>>

\* C2 witness: the only candidate has no artist at all and is returned
C2_Witness ==
    /\ Returned
    /\ Len(mCands) = 1
    /\ mCands[1].artists = <<>>
    /\ mResult = [kind |-> "track", idx |-> 1]

\* C3: every score the loop computes is the sum of the name tier (10 / 5 / 0),
\* the artist tier on the first listed artist (10 / 5 / 0), the album tier
\* (3 / 1 / 0, only when the original track has an album) and the duration tier
\* (2 within 2 seconds, 1 within 5 seconds, only when both durations are
\* non-zero); so every score is an integer in 0..25.
C3_ScoreIsTierSum ==
    Returned =>
        \A j \in 1..Len(mScores) :
            /\ mScores[j] = NameTier(j) + ArtistTier(j) + AlbumTier(j) + DurationTier(j)
            /\ mScores[j] \in 0..25

\* C3 witness: one call scores a candidate 25 and a candidate whose duration is
\* more than 2 and at most 5 seconds off
C3_Witness ==
    /\ Returned
    /\ \E j \in 1..Len(mScores) : mScores[j] = 25
    /\ \E j \in 1..Len(mScores) :
          /\ DurationTier(j) = 1
          /\ Abs(mTrack.duration.val * 1000 - mCands[j].duration_ms.val) \notin {3000, 4000, 5000}

\* C4: findBestMatch never raises an error: for every track and candidate list
\* it ends returning one of the candidates or null.
C4_NeverThrows == Returned => mResult.kind \in {"null", "track"}

(***************************************************************************)
(* Claims about parseDict                                                  *)
(***************************************************************************)
KidsOf(el, tag) == LET Tagged(kid) == HasTag(kid, tag) IN SelectSeq(el.kids, Tagged)

\* the value the record holds for a key given value element el
DecodedValue(key, el) ==
    CASE el.tag = "string" -> StrV(cleanText(el.text))
      [] el.tag = "integer" -> NumV(parseInt(el.text))
      [] el.tag = "date" -> DateV(el.text)
      [] el.tag = "true" -> BoolV(TRUE)
      [] el.tag = "false" -> BoolV(FALSE)
      [] el.tag = "array" ->
            IF key = <<"Playlist Items">> /\ KidsOf(el, "dict") # <<>>
            THEN parsePlaylistItems(Xml2js(el))
            ELSE RawV(Xml2js(el))

\* the values the six buckets of a dict hold, bucket after bucket in the
\* precedence string, integer, date, true, false, nested-array: walking the keys
\* and taking the next value of the first non-exhausted bucket pairs key i with
\* value i of this sequence
InPrecedence(el) ==
    KidsOf(el, "string") \o KidsOf(el, "integer") \o KidsOf(el, "date")
    \o KidsOf(el, "true") \o KidsOf(el, "false") \o KidsOf(el, "array")

MinOf(a, b) == IF a < b THEN a ELSE b

\* C5: parseDict gives key i the i-th value of the buckets taken in precedence
\* order: n keys and n values give a record of exactly n entries in key order,
\* and a key reached after every bucket is exhausted is omitted.
C5_PrecedenceDecode ==
    op = "parseDict" =>
        LET keys == KidsOf(dDict, "key")
            values == InPrecedence(dDict)
            n == MinOf(Len(keys), Len(values))
        IN  /\ Len(dResult) = n
            /\ \A i \in 1..n :
                   dResult[i] = [k |-> keys[i].text, v |-> DecodedValue(keys[i].text, values[i])]

(***************************************************************************)
(* Claims about the tab-delimited parser                                   *)
(***************************************************************************)
TabParsed == fileExt = ".txt" /\ op = "parseFile" /\ tRet.kind = "ok"

\* the non-blank lines of the file: the header row, then the data rows
Rows == SelectSeq(Split(tContent, "\n"), NonBlank)

HeaderRow == Split(Rows[1], "\t")

DataRow(k) == Split(Rows[k + 1], "\t")

FieldOf(R, i) == IF i <= Len(R) THEN R[i] ELSE <<>>

\* C6 as claimed: for header row H and data row R the record has
\* record[H[i]] = R[i] for i up to len(R) and "" beyond, for every header row,
\* also one that repeats a name; fields of R beyond len(H) are ignored and no
\* line is rejected.
C6_EveryColumn ==
    TabParsed =>
        /\ Len(tTracks) = Len(Rows) - 1
        /\ \A k \in 1..Len(tTracks) : \A i \in 1..Len(HeaderRow) :
               tTracks[k][HeaderRow[i]] = FieldOf(DataRow(k), i)

\* C6 amended: the same for every column whose header name does not occur again
\* further right (every column when the names are distinct); a repeated name holds
\* the value of its last column; every data row gives one record whose fields are
\* the header names.
C6_LastColumnWins ==
    TabParsed =>
        /\ Len(tTracks) = Len(Rows) - 1
        /\ \A k \in 1..Len(tTracks) :
               /\ DOMAIN tTracks[k] = {HeaderRow[i] : i \in 1..Len(HeaderRow)}
               /\ \A i \in 1..Len(HeaderRow) :
                      (\A j \in (i + 1)..Len(HeaderRow) : HeaderRow[j] # HeaderRow[i])
                      => tTracks[k][HeaderRow[i]] = FieldOf(DataRow(k), i)

\* C6 witness: a header row of distinct names, a data row with fewer fields, which
\* reads "" in the last column, and a data row with more fields
C6_Witness ==
    /\ TabParsed
    /\ Len(tTracks) = 2
    /\ \A i, j \in 1..Len(HeaderRow) : HeaderRow[i] = HeaderRow[j] => i = j
    /\ Len(DataRow(1)) < Len(HeaderRow)
    /\ tTracks[1][HeaderRow[Len(HeaderRow)]] = <<>>
    /\ Len(DataRow(2)) > Len(HeaderRow)

(***************************************************************************)
(* Claims about both parsers                                               *)
(***************************************************************************)
HasNameAndArtist(r) == Prop(r, <<"Name">>) # <<>> /\ Prop(r, <<"Artist">>) # <<>>

NonEmptyValue(v) == v # UndefinedV /\ v # StrV(<<>>)

\* C7: every track getTracksForSpotify returns, of either parser, has a non-empty
\* name and a non-empty artist; the tab parser returns exactly the records that
\* have both, in order, and the property-list parser only tracks of its table;
\* leaving a record out raises no error (the call fails only when a playlist
\* argument is looked up).
C7_NameAndArtist ==
    op = "getTracksForSpotify" =>
        /\ fileExt = ".txt" =>
              /\ tRet.kind = "ok"
              /\ \A i \in 1..Len(tRet.val) :
                     tRet.val[i].name # <<>> /\ tRet.val[i].artist # <<>>
              /\ [i \in 1..Len(tRet.val) |-> tRet.val[i].originalTrack]
                     = SelectSeq(tTracks, HasNameAndArtist)
        /\ fileExt = ".xml" =>
              /\ ~Truthy(xArg) => xRet.kind = "ok"
              /\ xRet.kind = "ok" =>
                     \A i \in 1..Len(xRet.val) :
                         /\ NonEmptyValue(xRet.val[i].name)
                         /\ NonEmptyValue(xRet.val[i].artist)
                         /\ \E j \in 1..Len(xTracks) : xRet.val[i].originalTrack = xTracks[j]

\* C7 witness: the tab parser leaves out a record without an artist and returns
\* another
C7_Witness ==
    /\ op = "getTracksForSpotify"
    /\ fileExt = ".txt"
    /\ Len(tTracks) = 2
    /\ Len(tRet.val) = 1
    /\ \E k \in 1..2 : Prop(tTracks[k], <<"Name">>) # <<>> /\ Prop(tTracks[k], <<"Artist">>) = <<>>

(***************************************************************************)
(* Claims about the property-list parser                                   *)
(***************************************************************************)
XmlParsed == fileExt = ".xml" /\ op = "parseFile" /\ xRet.kind = "ok"

NamedLookup ==
    /\ fileExt = ".xml"
    /\ op \in {"getTracksForSpotify", "getPlaylistInfo"}
    /\ Truthy(xArg)

\* the positions of the decoded playlists with exactly the name looked up
NamedAt == {i \in 1..Len(xPlaylists) : Get(xPlaylists[i], <<"Name">>) = xArg}

FirstNamed == CHOOSE i \in NamedAt : \A j \in NamedAt : i <= j

NotFoundError ==
    xRet.kind = "error" /\ xRet.err \in {"not found", "not found or has no tracks"}

TrackIdOf(track) == Get(track, <<"Track ID">>)

\* the identifiers among the items of a membership list
MemberIds(items) == {items.ids[i] : i \in 1..Len(items.ids)}

IsMember(track) ==
    TrackIdOf(track) \in MemberIds(Get(xPlaylists[FirstNamed], <<"Playlist Items">>))

EntriesOf(el) == [i \in 1..(Len(el.kids) \div 2) |-> <<el.kids[2 * i - 1], el.kids[2 * i]>>]

TopDict == xDoc.kids[1]

\* the values the top-level dict declares under a key name, of a given type
DeclaredAs(name, tag) ==
    LET Is(e) == e[1].text = <<name>> /\ e[2].tag = tag
        found == SelectSeq(EntriesOf(TopDict), Is)
    IN  [i \in 1..Len(found) |-> found[i][2]]

\* the tracks a Tracks dict holds: each entry decoded, stamped with the
\* identifier it is stored under, and retained if it has a name and an artist
\* or album artist
TracksIn(dict) ==
    LET entries == EntriesOf(dict)
        decoded == [i \in 1..Len(entries) |->
                       Set(parseDict(Xml2js(entries[i][2])), <<"Track ID">>,
                           NumV(parseInt(entries[i][1].text)))]
    IN  SelectSeq(decoded, RetainsTrack)

\* the playlists a Playlists array holds: each entry decoded, retained if named
PlaylistsIn(array) ==
    LET IsNamed(pl) == Truthy(Get(pl, <<"Name">>))
    IN  SelectSeq([i \in 1..Len(array.kids) |-> parseDict(Xml2js(array.kids[i]))], IsNamed)

\* C9: the Tracks dict and the Playlists array are located by key name, not by
\* position: whatever other dict-valued or array-valued keys the top-level dict
\* declares, and in whatever order, extractTracks decodes the entries of the dict
\* declared under "Tracks" and extractPlaylists those of the array declared
\* under "Playlists".
C9_LocatedByName ==
    XmlParsed =>
        /\ Len(DeclaredAs("Tracks", "dict")) = 1
               => xTracks = TracksIn(DeclaredAs("Tracks", "dict")[1])
        /\ Len(DeclaredAs("Playlists", "array")) = 1
               => xPlaylists = PlaylistsIn(DeclaredAs("Playlists", "array")[1])

WithId(tracks, id) == {i \in 1..Len(tracks) : TrackIdOf(tracks[i]) = id}

DictsOfTop == KidsOf(TopDict, "dict")

DeclaredKeys == {KidsOf(TopDict, "key")[i].text : i \in 1..Len(KidsOf(TopDict, "key"))}

\* C11: a property-list parse fails exactly when the document has no top-level
\* dict; when the top-level dict lacks the "Tracks" key the parse succeeds with
\* an empty track list, when it lacks the "Playlists" key with an empty playlist
\* list.
C11_FailsOnlyWithoutDict ==
    (fileExt = ".xml" /\ op = "parseFile") =>
        /\ xRet.kind = "error" <=> KidsOf(xDoc, "dict") = <<>>
        /\ KidsOf(xDoc, "dict") # <<>> =>
               /\ <<"Tracks">> \notin DeclaredKeys => xTracks = <<>>
               /\ <<"Playlists">> \notin DeclaredKeys => xPlaylists = <<>>

IsMaster(p) == Truthy(Get(p, <<"Master">>))

\* the entries of a listPlaylists result are those of the playlists chosen, in order
ListsExactly(chosen) ==
    /\ Len(xRet.val) = Len(chosen)
    /\ \A i \in 1..Len(chosen) :
           /\ xRet.val[i].name = Get(chosen[i], <<"Name">>)
           /\ xRet.val[i].persistent_id = Get(chosen[i], <<"Playlist Persistent ID">>)

FoundEl ==
    LET IsNamed(el) == Truthy(Get(parseDict(Xml2js(el)), <<"Name">>))
    IN  SelectSeq(DeclaredAs("Playlists", "array")[1].kids, IsNamed)[FirstNamed]

\* the identifiers the items of a playlist element declare
ItemIdsOf(el) ==
    LET items == KidsOf(KidsOf(el, "array")[1], "dict")
    IN  {NumV(parseInt(KidsOf(items[i], "integer")[1].text)) : i \in 1..Len(items)}

\* C19: resolving a named playlist returns exactly the retained library tracks
\* whose identifier occurs among the items of the playlist, in library order,
\* each at most once however often its id is repeated; an item whose id matches
\* no retained track contributes nothing and raises no error.
C19_ExactlyTheItemsTracks ==
    /\ NamedLookup
    /\ op = "getTracksForSpotify"
    /\ xRet.kind = "ok"
    /\ Len(DeclaredAs("Playlists", "array")) = 1
    /\ xPlaylists = PlaylistsIn(DeclaredAs("Playlists", "array")[1])
    => LET Occurs(track) == TrackIdOf(track) \in ItemIdsOf(FoundEl)
       IN  [i \in 1..Len(xRet.val) |-> xRet.val[i].originalTrack] = SelectSeq(xTracks, Occurs)

(***************************************************************************)
(* Claims about the lifetime of a parser                                   *)
(***************************************************************************)
\* the tables a fresh parser decodes from a document
DecodedFrom(doc) ==
    LET mainDict == JsProp(Xml2js(doc), "dict")
    IN  [tracks |-> extractTracks(mainDict, <<>>), playlists |-> extractPlaylists(mainDict, <<>>)]

\* C18: the tables of a parser hold exactly the entries decoded from the file
\* parsed successfully last: a successful parseFile leaves in them the entries of
\* its file and none of an earlier file, a failed parseFile and every lookup
\* leave them as they are.
C18_TablesOfLastParse ==
    [][ /\ op' \in {"getTracksForSpotify", "getPlaylistInfo", "listPlaylists"}
           => UNCHANGED <<xTracks, xPlaylists, tHeaders, tTracks>>
        /\ (op' = "parseFile" /\ fileExt = ".xml") =>
               IF xRet'.kind = "ok"
               THEN /\ xTracks' = DecodedFrom(xDoc').tracks
                    /\ xPlaylists' = DecodedFrom(xDoc').playlists
               ELSE UNCHANGED <<xTracks, xPlaylists>>
        /\ (op' = "parseFile" /\ fileExt = ".txt") =>
               IF tRet'.kind = "ok"
               THEN tTracks' = tabParse(tContent').tracks
               ELSE UNCHANGED <<tHeaders, tTracks>>
      ]_vars

(***************************************************************************)
(* Claims about searching, batch matching and the conversion run           *)
(***************************************************************************)
\* the track whose search was issued last
SearchedTrack == appleTracks[loopIndex + 1]

\* C12: searchTrack is two-tier: the free-text query (name and artist, no
\* album) is issued if and only if the field-qualified query returned zero
\* candidates, and then its results are returned; when the first query returns
\* at least one candidate, exactly one request is made and exactly its results
\* are returned.
C12_TwoTier ==
    op = "searchTrack" =>
        LET n == Len(search.requests)
            firstEmpty == n >= 1 /\ search.replies[1].ok /\ search.replies[1].items = <<>>
            firstFull == n >= 1 /\ search.replies[1].ok /\ search.replies[1].items # <<>>
        IN  /\ n <= 2
            /\ n >= 1 => search.requests[1] =
                   [q |-> "track: artist: album:", track |-> SearchedTrack.name,
                    artist |-> SearchedTrack.artist, album |-> SearchedTrack.album]
            /\ n = 2 <=> firstEmpty
            /\ n = 2 =>
                   /\ search.requests[2] =
                          [q |-> "free text", track |-> SearchedTrack.name,
                           artist |-> SearchedTrack.artist, album |-> <<>>]
                   /\ search.results =
                          IF search.replies[2].ok THEN search.replies[2].items ELSE <<>>
            /\ firstFull => n = 1 /\ search.results = search.replies[1].items

\* C12 witness: the first query returns nothing and the second one a candidate,
\* which is returned
C12_Witness ==
    /\ op = "searchTrack"
    /\ Len(search.requests) = 2
    /\ search.replies[1].ok
    /\ search.results # <<>>
    /\ search.results = search.replies[2].items

\* C13: a failure while one track is searched or matched (a failed request, a
\* failed token fetch, a failure inside the scoring) degrades only that track to
\* not found: the batch goes on to the next track and never aborts.
C13_FailureDegradesTrack ==
    op = "classify" =>
        /\ run.state = "searching"
        /\ (~search.token \/ \E k \in 1..Len(search.replies) : ~search.replies[k].ok)
           => (results.notFound # <<>>
               /\ results.notFound[Len(results.notFound)] = loopIndex)

FoundTracks == [k \in 1..Len(results.found) |-> results.found[k].original]

Increasing(seq) == \A j, k \in 1..Len(seq) : j < k => seq[j] < seq[k]

RangeOf(seq) == {seq[k] : k \in 1..Len(seq)}

\* C17: tracks are processed one at a time in list order: in every state found
\* and notFound are disjoint, hold together exactly a prefix of the input, each
\* in input order; a search is issued for the track that follows that prefix;
\* when the batch has returned, found.length + notFound.length = total = the
\* number of input tracks.
C17_SequentialPrefix ==
    /\ Increasing(FoundTracks)
    /\ Increasing(results.notFound)
    /\ RangeOf(FoundTracks) \cap RangeOf(results.notFound) = {}
    /\ RangeOf(FoundTracks) \cup RangeOf(results.notFound)
           = 1..(Len(results.found) + Len(results.notFound))
    /\ op = "searchTrack" =>
           /\ Len(results.found) + Len(results.notFound) = loopIndex
           /\ \A k \in 1..Len(search.requests) :
                  search.requests[k].track = appleTracks[loopIndex + 1].name
    /\ op = "finish" =>
           /\ Len(results.found) + Len(results.notFound) = results.total
           /\ results.total = Len(appleTracks)

\* C17 witness: a batch of two tracks has returned, the first track not found
\* and the second found
C17_Witness ==
    /\ op = "finish"
    /\ results.notFound = <<1>>
    /\ FoundTracks = <<2>>

\* C14: whenever a run leaves a track unmatched, a report is written that the
\* tab parser reads back as one record per unmatched track, in order, with the
\* same Name, Artist and Album.
C14_ReportReadsBack ==
    (op = "finish" /\ results.notFound # <<>>) =>
        /\ run.written
        /\ LET read == tabParse(run.report)
           IN  /\ read.kind = "ok"
               /\ Len(read.tracks) = Len(results.notFound)
               /\ \A k \in 1..Len(results.notFound) :
                      LET track == appleTracks[results.notFound[k]]
                      IN  /\ Prop(read.tracks[k], <<"Name">>) = track.name
                          /\ Prop(read.tracks[k], <<"Artist">>) = track.artist
                          /\ Prop(read.tracks[k], <<"Album">>) = track.album

====
